---- MODULE Spec2Model ----
(***************************************************************************)
(* Interview session controller of PrepAI (js/pages/interview.js and the   *)
(* second copy of the controller, unnamed/part_000).  The controller is a  *)
(* set of event handlers and async functions over module-level variables;  *)
(* every handler runs to its first await in one step, and the code after   *)
(* an await runs in one step when the awaited request resolves.            *)
(* The report page (js/pages/feedback.js and its older copy,               *)
(* unnamed/part_001) is modelled the same way under FeedbackSpec: it opens *)
(* on a sessionStorage content, requests the evaluation and renders the    *)
(* response body into the report elements.                                 *)
(***************************************************************************)
EXTENDS Integers, Sequences, FiniteSets, TLC

\* ---------------------------------------------------------------- bounds
MaxTranscript == 2      \* entries the transcript may grow to
MaxStartCalls == 2      \* startInterview calls awaiting their response
MaxEvalCalls  == 1      \* evaluate-answer calls awaiting their response
MaxDimensions  == 2        \* keys of a payload's dimension map
MaxActionItems == 2        \* length of a payload's action_items
MaxEvaluationCalls == 2    \* evaluate-interview calls awaiting their response
MaxSkills == 2             \* length of config.skills

\* ------------------------------------------------------------ vocabulary
NULL      == "null"
UNDEFINED == "undefined"
MISSING   == -1                         \* config.skills absent

Builds     == {"pages", "part_000"}     \* the two copies of the controller
Questions  == {"Q1"}                    \* texts the remote service sends
FallbackQuestion == "Let's start with your first question."
Messages   == {"", "a1"}                \* trimmed content of the input box
SessionIds == {"abc123", "xyz789"}

Phases == {"NotStarted", "Starting", "AwaitingAnswer", "Submitting",
           "Completed", "Error"}

StatusInitial   == ""
StatusStarting  == "Starting interview..."
StatusReady     == "Ready for your answer"
StatusAnalyzing == "AI is analyzing your response..."
StatusStartErr  == "Error starting interview"
StatusSubmitErr == "Error submitting answer"
StatusComplete  == "Interview complete - Ready for evaluation"

NoEvaluation == [answer |-> NULL, question |-> NULL, historyLen |-> -1]

NullConfig == [exists |-> FALSE, role |-> FALSE, seniority |-> FALSE,
               skills |-> MISSING, selectedSkillName |-> FALSE,
               duration |-> "unset"]

Config(r, s, k, n) == [exists |-> TRUE, role |-> r, seniority |-> s,
                       skills |-> k, selectedSkillName |-> n,
                       duration |-> "unset"]

\* configurations the page may find in sessionStorage / prepAIState
Configs == { NullConfig,
             Config(TRUE, TRUE, 1, FALSE),
             Config(FALSE, TRUE, 1, FALSE),
             Config(TRUE, TRUE, 0, FALSE) }

\* configurations handed to the validators: role and seniority present or
\* not, skills absent or an array of 0..MaxSkills elements
ValidatorInputs ==
    {NullConfig} \cup
    {Config(r, s, k, n) : r \in BOOLEAN, s \in BOOLEAN,
                          k \in {MISSING} \cup 0..MaxSkills, n \in BOOLEAN}

\* no validator has run
NotValidated == [ran |-> FALSE, threw |-> FALSE, isValid |-> FALSE,
                 errors |-> <<>>]

VARIABLES
    build,            \* which copy of the controller is running
    interviewConfig,  \* let interviewConfig
    sessionId,        \* let sessionId
    transcript,       \* let transcript
    isWaitingForAI,   \* let isWaitingForAI
    startTime,        \* let startTime (TRUE once the timer was started)
    status,           \* text of #interview-status-display
    startCalls,       \* startInterview calls awaiting start-interview
    submitCalls,      \* bodies of the submit-answer requests in flight
    evalCalls,        \* bodies of the evaluate-answer requests in flight
    store,            \* sessionStorage: the two prepai_interview_* keys
    navigation,       \* "none", "requested" (location.href set), "committed"
    console,          \* branch-specific line of the last step that logged
    phase,            \* position of the controller in the turn sequence
    location,         \* document the tab shows or is navigating to
    screen,           \* report page: which of its screens is visible
    interviewTranscript, \* report page: let interviewTranscript
    evaluationData,   \* report page: let evaluationData / feedbackData
    report,           \* report page: what the report elements display
    evaluationCalls,  \* bodies of the evaluate-interview requests in flight
    candidate,        \* configuration handed to the two validators
    validation,       \* result of Validation.validateInterviewConfig
    accepted          \* result of isValidConfiguration

\* the variables of the report page
feedbackVars == <<screen, interviewTranscript, evaluationData, report,
                  evaluationCalls>>

\* the variables of the validator comparison
validationVars == <<candidate, validation, accepted>>

\* the variables of the interview page
controllerVars == <<sessionId, transcript, isWaitingForAI, startTime, status,
                    startCalls, submitCalls, evalCalls, navigation, phase>>

vars == <<build, interviewConfig, sessionId, transcript, isWaitingForAI,
          startTime, status, startCalls, submitCalls, evalCalls, store,
          navigation, console, phase, location, screen, interviewTranscript,
          evaluationData, report, evaluationCalls, candidate, validation,
          accepted>>

\* --------------------------------------------------------------- helpers
RemoveAt(s, i) == SubSeq(s, 1, i - 1) \o SubSeq(s, i + 1, Len(s))

PageAlive == navigation # "committed"

\* requests of the turn sequence still to resolve
TurnRequests == startCalls + Len(submitCalls)

\* a further turn request may be sent: every request in flight may still add
\* an entry to the transcript
WithinTranscriptBound == Len(transcript) + TurnRequests < MaxTranscript

isValidConfiguration(c) ==
    c.exists /\ c.role /\ c.seniority /\ c.skills # MISSING /\ c.skills > 0

\* interviewConfig.skills[0].split(...) throws a TypeError
SkillSplitThrows(c) == c.skills = MISSING \/ c.skills = 0

\* building the start-interview body throws before fetch is called
StartRequestThrows(c) ==
    \/ c.skills = MISSING
    \/ (~c.selectedSkillName /\ SkillSplitThrows(c))

\* mutant: the pushed entry starts with an empty answer instead of null
displayAIMessage_EmptyAnswer(t, q) ==
    Append(t, [question |-> q, answer |-> "", evaluation |-> NoEvaluation])

\* the transcript.push of displayAIMessage
displayAIMessage(t, q) ==
    Append(t, [question |-> q, answer |-> NULL, evaluation |-> NoEvaluation])

\* the transcript part of displayUserMessage
recordAnswer(t, m) ==
    IF Len(t) > 0 THEN [t EXCEPT ![Len(t)].answer = m] ELSE t

Falsy(v) == v \in {NULL, UNDEFINED, ""}

\* responses of POST /api/start-interview: a transport failure or non-OK
\* status (ok = FALSE), or a JSON body
StartResponses ==
    [ok : {FALSE}, session_id : {UNDEFINED}, opening_statement : {UNDEFINED}]
    \cup [ok : {TRUE}, session_id : SessionIds \cup {UNDEFINED},
          opening_statement : Questions \cup {UNDEFINED}]

\* responses of POST /api/submit-answer
SubmitResponses ==
    [ok : {FALSE}, interview_completed : {FALSE}, success : {FALSE},
     next_question : {UNDEFINED}]
    \cup [ok : {TRUE}, interview_completed : BOOLEAN, success : BOOLEAN,
          next_question : Questions \cup {UNDEFINED}]

\* mutant: the body is returned without the session_id validation
startOrchestratorInterview_NoValidation(resp) == resp.ok

\* startOrchestratorInterview returns the body (TRUE) or throws (FALSE)
startOrchestratorInterview(resp) == resp.ok /\ ~Falsy(resp.session_id)

\* mutant: the next-question branch is tested before the completion flag
CompletionDetector_QuestionFirst(data) ==
    IF data.success /\ ~Falsy(data.next_question) THEN "Continue"
    ELSE IF data.interview_completed THEN "Completed"
    ELSE "AmbiguousCompleted"

\* mutant: a response with neither flag nor question goes on like Continue
CompletionDetector_NoFallback(data) ==
    IF data.interview_completed THEN "Completed" ELSE "Continue"

\* the three-way branch of submitAnswer on the response body
CompletionDetector(data) ==
    IF data.interview_completed THEN "Completed"
    ELSE IF data.success /\ ~Falsy(data.next_question) THEN "Continue"
    ELSE "AmbiguousCompleted"

\* displayUserMessage calls evaluateIndividualAnswer (part_000 only)
EvaluatesAnswer(t) ==
    /\ build = "part_000"
    /\ Len(t) > 0
    /\ interviewConfig.exists /\ interviewConfig.role /\ interviewConfig.seniority

\* duration bookkeeping of part_000
withDuration(c) ==
    IF build = "part_000" /\ c.exists
       THEN [c EXCEPT !.duration = IF startTime THEN "elapsed" ELSE "0"]
       ELSE c

\* mutant: only the config is handed over, the transcript key is left alone
saveInterviewData_ConfigOnly(t, c) ==
    [transcript |-> store.transcript, hasTranscript |-> store.hasTranscript,
     config |-> c, hasConfig |-> TRUE]

\* sessionStorage.setItem of transcript and config under their two keys
saveInterviewData(t, c) ==
    [transcript |-> t, hasTranscript |-> TRUE, config |-> c, hasConfig |-> TRUE]

\* ------------------------------------------ report page: vocabulary
\* js/pages/feedback.js and the older copy of the report page, unnamed/part_001
FeedbackBuilds == {"pages", "part_001"}

NullNumber == -2                        \* JSON null in a numeric field

\* scores and ratings of the 0-5 scale are in tenths: 45 is 4.5
\* the scale's ends and the values next to each label threshold
Scores      == {0, 24, 25, 29, 30, 34, 35, 39, 40, 44, 45, 50}
ScoreFields == Scores \cup {MISSING, NullNumber}
Summaries   == {UNDEFINED, NULL, "", "S1"}
\* overall_score of the flat payload, on its own 0-100 scale
FlatScores  == {MISSING, 0, 80}
FlatFeedbacks == {UNDEFINED, "F1"}

Ratings == {MISSING, 0, 40}

\* one key of dimension_evaluations with its value; isObject = FALSE is a
\* value of null
DimensionEntries ==
    [name : {"problem_solving"}, isObject : {TRUE}, rating : Ratings]
       \cup [name : {"communication"}, isObject : {TRUE}, rating : {40}]
       \cup [name : {"communication"}, isObject : {FALSE}, rating : {MISSING}]

SeqsUpTo(S, n) == UNION {[1..k -> S] : k \in 0..n}

\* a JSON object keeps its keys in insertion order and has no key twice
DimensionMaps ==
    {d \in SeqsUpTo(DimensionEntries, MaxDimensions) :
        \A i, j \in 1..Len(d) : i # j => d[i].name # d[j].name}

Items == {[title |-> "T1", priority |-> "Low"],
          [title |-> "T2", priority |-> "Critical"]}
ActionLists == SeqsUpTo(Items, MaxActionItems)

Assessment(s, e) ==
    [exists |-> TRUE, overall_score |-> s, executive_summary |-> e]
NoAssessment ==
    [exists |-> FALSE, overall_score |-> MISSING, executive_summary |-> UNDEFINED]
Dimensions(d) == [exists |-> TRUE, entries |-> d]
NoDimensions  == [exists |-> FALSE, entries |-> <<>>]
ActionItems(a) == [exists |-> TRUE, items |-> a]
NoActionItems  == [exists |-> FALSE, items |-> <<>>]

\* a response body of evaluate-interview
Payload(oa, dims, acts, fs, ff) ==
    [json |-> "object", overall_assessment |-> oa,
     dimension_evaluations |-> dims, action_items |-> acts,
     overall_score |-> fs, overall_feedback |-> ff]

\* let evaluationData = null
NoData ==
    [json |-> "null", overall_assessment |-> NoAssessment,
     dimension_evaluations |-> NoDimensions, action_items |-> NoActionItems,
     overall_score |-> MISSING, overall_feedback |-> UNDEFINED]

DefaultDimensions ==
    <<[name |-> "problem_solving", isObject |-> TRUE, rating |-> 40]>>
DefaultItems == <<[title |-> "T1", priority |-> "Low"]>>

\* the enhanced per-dimension shape
Enhanced(s, e, d, a) ==
    Payload(Assessment(s, e), d, a, MISSING, UNDEFINED)

\* the legacy flat-score shape
Flat(fs, ff) == Payload(NoAssessment, NoDimensions, NoActionItems, fs, ff)

\* bodies the evaluation service may answer with: each part of the enhanced
\* shape varies over its whole range while the others are fixed
Payloads ==
    {Enhanced(s, "S1", Dimensions(DefaultDimensions), ActionItems(DefaultItems)) :
        s \in ScoreFields}
    \cup {Enhanced(35, e, Dimensions(DefaultDimensions), ActionItems(DefaultItems)) :
        e \in Summaries}
    \cup {Enhanced(35, "S1", Dimensions(d), ActionItems(DefaultItems)) :
        d \in DimensionMaps}
    \cup {Enhanced(35, "S1", Dimensions(DefaultDimensions), ActionItems(a)) :
        a \in ActionLists}
    \cup {Enhanced(35, "S1", NoDimensions, NoActionItems)}
    \cup {Payload(NoAssessment, Dimensions(DefaultDimensions),
                  ActionItems(DefaultItems), MISSING, UNDEFINED)}
    \cup {Flat(fs, ff) : fs \in FlatScores, ff \in FlatFeedbacks}

\* what the report elements show before anything is rendered
StaticReport ==
    [scoreValue |-> [kind |-> "static", value |-> 0], scoreLabel |-> "static",
     summary |-> "static", chart |-> <<>>, cards |-> <<>>, actionItems |-> <<>>]

Entry(q, a) == [question |-> q, answer |-> a, evaluation |-> NoEvaluation]

\* transcripts the interview page leaves behind: nothing asked, exit right
\* after the opening question, one answered question
StoredTranscripts == {<<>>, <<Entry("Q1", NULL)>>, <<Entry("Q1", "a1")>>}

ClearedStore ==
    [transcript |-> <<>>, hasTranscript |-> FALSE,
     config |-> NullConfig, hasConfig |-> FALSE]

\* contents of sessionStorage the report page may be opened with
Stores ==
    {ClearedStore,
     [transcript |-> <<>>, hasTranscript |-> FALSE,
      config |-> Config(TRUE, TRUE, 1, FALSE), hasConfig |-> TRUE]}
    \cup {saveInterviewData(t, Config(TRUE, TRUE, 1, FALSE)) :
             t \in StoredTranscripts}
    \cup {saveInterviewData(<<>>, NullConfig),
          saveInterviewData(<<Entry("Q1", "a1")>>, Config(FALSE, TRUE, 1, FALSE)),
          saveInterviewData(<<Entry("Q1", "a1")>>, Config(TRUE, FALSE, 1, FALSE))}

\* ------------------------------------------------------------------ Init
Init ==
    /\ build \in Builds
    /\ interviewConfig \in Configs
    /\ sessionId = NULL
    /\ transcript = <<>>
    /\ isWaitingForAI = FALSE
    /\ startTime = FALSE
    /\ status = StatusInitial
    /\ startCalls = 0
    /\ submitCalls = <<>>
    /\ evalCalls = <<>>
    /\ store = [transcript |-> <<>>, hasTranscript |-> FALSE,
                config |-> interviewConfig, hasConfig |-> interviewConfig.exists]
    /\ navigation = "none"
    /\ console = ""
    /\ candidate = NullConfig
    /\ validation = NotValidated
    /\ accepted = "unchecked"
    /\ phase = "NotStarted"
    /\ location = "interview.html"
    /\ screen = "unloaded"
    /\ interviewTranscript = <<>>
    /\ evaluationData = NoData
    /\ report = StaticReport
    /\ evaluationCalls = <<>>

\* --------------------------------------------------------------- actions
\* click on #begin-interview-btn: showInterviewInterface, initializeInterview,
\* startInterview up to `await fetch`
handleBeginInterview ==
    /\ PageAlive
    /\ startCalls < MaxStartCalls
    /\ WithinTranscriptBound
    /\ IF ~interviewConfig.exists
          THEN /\ status' = StatusStarting
               /\ console' = "Cannot initialize interview without configuration"
               /\ UNCHANGED <<startTime, startCalls, phase>>
          ELSE /\ startTime' = TRUE
               /\ IF StartRequestThrows(interviewConfig)
                     THEN /\ status' = StatusStartErr
                          /\ console' = "Error starting interview: TypeError"
                          /\ phase' = "Error"
                          /\ UNCHANGED startCalls
                     ELSE /\ status' = StatusStarting
                          /\ console' = "Starting orchestrator interview"
                          /\ phase' = "Starting"
                          /\ startCalls' = startCalls + 1
    /\ UNCHANGED <<build, interviewConfig, sessionId, transcript,
                   isWaitingForAI, submitCalls, evalCalls, store, navigation>>
    /\ UNCHANGED <<location, feedbackVars, validationVars>>

\* mutant: a failed start throws the session away
StartResponse_ResetsOnError(resp) ==
    /\ PageAlive
    /\ startCalls > 0
    /\ startCalls' = startCalls - 1
    /\ IF ~startOrchestratorInterview(resp)
          THEN /\ status' = StatusStartErr
               /\ console' = IF resp.ok THEN "Missing session_id in response"
                                        ELSE "Error starting interview: fetch"
               /\ phase' = "Error"
               /\ sessionId' = NULL
               /\ transcript' = <<>>
               /\ UNCHANGED isWaitingForAI
          ELSE /\ sessionId' = resp.session_id
               /\ IF ~Falsy(resp.opening_statement)
                     THEN /\ transcript' =
                                displayAIMessage(transcript, resp.opening_statement)
                          /\ status' = StatusReady
                          /\ isWaitingForAI' = FALSE
                          /\ console' = "Displaying opening statement"
                          /\ phase' = "AwaitingAnswer"
                     ELSE IF build = "pages"
                             THEN IF SkillSplitThrows(interviewConfig)
                                     THEN /\ status' = StatusStartErr
                                          /\ console' =
                                               "Error starting interview: TypeError"
                                          /\ phase' = "Error"
                                          /\ UNCHANGED <<transcript, isWaitingForAI>>
                                     ELSE /\ transcript' = displayAIMessage(
                                                 transcript, FallbackQuestion)
                                          /\ status' = StatusReady
                                          /\ isWaitingForAI' = FALSE
                                          /\ console' =
                                               "No opening statement, using fallback question"
                                          /\ phase' = "AwaitingAnswer"
                             ELSE /\ console' =
                                       "No opening statement received from API"
                                  /\ phase' = "Error"
                                  /\ UNCHANGED <<transcript, status, isWaitingForAI>>
    /\ UNCHANGED <<build, interviewConfig, startTime, submitCalls, evalCalls,
                   store, navigation>>
    /\ UNCHANGED <<location, feedbackVars, validationVars>>

\* a start-interview request resolves with resp: the rest of
\* startOrchestratorInterview and of startInterview
StartResponse(resp) ==
    /\ PageAlive
    /\ startCalls > 0
    /\ startCalls' = startCalls - 1
    /\ IF ~startOrchestratorInterview(resp)
          THEN /\ status' = StatusStartErr
               /\ console' = IF resp.ok THEN "Missing session_id in response"
                                        ELSE "Error starting interview: fetch"
               /\ phase' = "Error"
               /\ UNCHANGED <<sessionId, transcript, isWaitingForAI>>
          ELSE /\ sessionId' = resp.session_id
               /\ IF ~Falsy(resp.opening_statement)
                     THEN /\ transcript' =
                                displayAIMessage(transcript, resp.opening_statement)
                          /\ status' = StatusReady
                          /\ isWaitingForAI' = FALSE
                          /\ console' = "Displaying opening statement"
                          /\ phase' = "AwaitingAnswer"
                     ELSE IF build = "pages"
                             THEN IF SkillSplitThrows(interviewConfig)
                                     THEN /\ status' = StatusStartErr
                                          /\ console' =
                                               "Error starting interview: TypeError"
                                          /\ phase' = "Error"
                                          /\ UNCHANGED <<transcript, isWaitingForAI>>
                                     ELSE /\ transcript' = displayAIMessage(
                                                 transcript, FallbackQuestion)
                                          /\ status' = StatusReady
                                          /\ isWaitingForAI' = FALSE
                                          /\ console' =
                                               "No opening statement, using fallback question"
                                          /\ phase' = "AwaitingAnswer"
                             ELSE /\ console' =
                                       "No opening statement received from API"
                                  /\ phase' = "Error"
                                  /\ UNCHANGED <<transcript, status, isWaitingForAI>>
    /\ UNCHANGED <<build, interviewConfig, startTime, submitCalls, evalCalls,
                   store, navigation>>
    /\ UNCHANGED <<location, feedbackVars, validationVars>>

\* handleInterviewCompletion: status, permanent input lock, duration (part_000),
\* hand-off of transcript and config to sessionStorage
handleInterviewCompletion(t) ==
    /\ status' = StatusComplete
    /\ isWaitingForAI' = TRUE
    /\ interviewConfig' = withDuration(interviewConfig)
    /\ store' = saveInterviewData(t, withDuration(interviewConfig))
    /\ phase' = "Completed"

\* click on #send-message-btn or Enter in #user-input, up to `await fetch`
handleSendMessage(m) ==
    /\ PageAlive
    /\ IF Falsy(m) \/ isWaitingForAI
          THEN UNCHANGED vars
          ELSE /\ transcript' = recordAnswer(transcript, m)
               /\ evalCalls' =
                    IF EvaluatesAnswer(transcript) /\ Len(evalCalls) < MaxEvalCalls
                       THEN Append(evalCalls,
                              [answer |-> m,
                               question |-> transcript[Len(transcript)].question,
                               historyLen |-> Len(transcript) - 1])
                       ELSE evalCalls  \* beyond the bound: a call that never returns
               /\ IF Falsy(sessionId)
                     THEN \* submitAnswer throws 'No active session'
                          /\ status' = StatusSubmitErr
                          /\ isWaitingForAI' = FALSE
                          /\ console' = "Error submitting answer: No active session"
                          /\ UNCHANGED <<submitCalls, phase>>
                     ELSE /\ WithinTranscriptBound
                          /\ status' = StatusAnalyzing
                          /\ isWaitingForAI' = TRUE
                          /\ submitCalls' = Append(submitCalls,
                                [session_id |-> sessionId, answer |-> m])
                          /\ console' = IF EvaluatesAnswer(transcript)
                                           THEN "Evaluating individual answer..."
                                           ELSE console
                          /\ phase' = "Submitting"
               /\ UNCHANGED <<build, interviewConfig, sessionId, startTime,
                              startCalls, store, navigation>>
    /\ UNCHANGED <<location, feedbackVars, validationVars>>

\* mutant: the catch block of handleSendMessage forgets enableInput
SubmitResponse_NoReenable(i, resp) ==
    /\ PageAlive
    /\ i \in 1..Len(submitCalls)
    /\ submitCalls' = RemoveAt(submitCalls, i)
    /\ IF ~resp.ok
          THEN /\ status' = StatusSubmitErr
               /\ isWaitingForAI' = isWaitingForAI
               /\ console' = "Error submitting answer: fetch"
               /\ phase' = "Error"
               /\ UNCHANGED <<transcript, interviewConfig, store>>
          ELSE CASE CompletionDetector(resp) = "Completed" ->
                      /\ transcript' =
                            displayAIMessage(transcript, resp.next_question)
                      /\ handleInterviewCompletion(transcript')
                      /\ console' = "Interview completed by AI assessment"
                 [] CompletionDetector(resp) = "Continue" ->
                      /\ transcript' =
                            displayAIMessage(transcript, resp.next_question)
                      /\ status' = StatusReady
                      /\ isWaitingForAI' = FALSE
                      /\ phase' = "AwaitingAnswer"
                      /\ UNCHANGED <<interviewConfig, store, console>>
                 [] OTHER ->
                      /\ transcript' = transcript
                      /\ handleInterviewCompletion(transcript)
                      /\ console' = "Interview completed via fallback logic"
    /\ UNCHANGED <<build, sessionId, startTime, startCalls, evalCalls,
                   navigation>>
    /\ UNCHANGED <<location, feedbackVars, validationVars>>

\* the submit-answer request i resolves with resp: the rest of submitAnswer
\* and of handleSendMessage
SubmitResponse(i, resp) ==
    /\ PageAlive
    /\ i \in 1..Len(submitCalls)
    /\ submitCalls' = RemoveAt(submitCalls, i)
    /\ IF ~resp.ok
          THEN /\ status' = StatusSubmitErr
               /\ isWaitingForAI' = FALSE
               /\ console' = "Error submitting answer: fetch"
               /\ phase' = "Error"
               /\ UNCHANGED <<transcript, interviewConfig, store>>
          ELSE CASE CompletionDetector(resp) = "Completed" ->
                      /\ transcript' =
                            displayAIMessage(transcript, resp.next_question)
                      /\ handleInterviewCompletion(transcript')
                      /\ console' = "Interview completed by AI assessment"
                 [] CompletionDetector(resp) = "Continue" ->
                      /\ transcript' =
                            displayAIMessage(transcript, resp.next_question)
                      /\ status' = StatusReady
                      /\ isWaitingForAI' = FALSE
                      /\ phase' = "AwaitingAnswer"
                      /\ UNCHANGED <<interviewConfig, store, console>>
                 [] OTHER ->
                      /\ transcript' = transcript
                      /\ handleInterviewCompletion(transcript)
                      /\ console' = "Interview completed via fallback logic"
    /\ UNCHANGED <<build, sessionId, startTime, startCalls, evalCalls,
                   navigation>>
    /\ UNCHANGED <<location, feedbackVars, validationVars>>

\* mutant: a failed evaluation is surfaced like a failed submit
EvaluateResponse_Surfaced(i, ok) ==
    /\ PageAlive
    /\ i \in 1..Len(evalCalls)
    /\ evalCalls' = RemoveAt(evalCalls, i)
    /\ IF ok
          THEN /\ transcript' =
                    IF Len(transcript) > 0
                       THEN [transcript EXCEPT ![Len(transcript)].evaluation =
                                                   evalCalls[i]]
                       ELSE transcript
               /\ console' = "Individual evaluation completed"
               /\ UNCHANGED <<status, isWaitingForAI>>
          ELSE /\ console' = "Individual evaluation failed"
               /\ status' = StatusSubmitErr
               /\ isWaitingForAI' = FALSE
               /\ UNCHANGED transcript
    /\ UNCHANGED <<build, interviewConfig, sessionId, startTime,
                   startCalls, submitCalls, store, navigation, phase>>
    /\ UNCHANGED <<location, feedbackVars, validationVars>>

\* the evaluate-answer request i resolves: the rest of evaluateIndividualAnswer
EvaluateResponse(i, ok) ==
    /\ PageAlive
    /\ i \in 1..Len(evalCalls)
    /\ evalCalls' = RemoveAt(evalCalls, i)
    /\ IF ok
          THEN /\ transcript' =
                    IF Len(transcript) > 0
                       THEN [transcript EXCEPT ![Len(transcript)].evaluation =
                                                   evalCalls[i]]
                       ELSE transcript
               /\ console' = "Individual evaluation completed"
          ELSE /\ console' = "Individual evaluation failed"
               /\ UNCHANGED transcript
    /\ UNCHANGED <<build, interviewConfig, sessionId, isWaitingForAI, startTime,
                   status, startCalls, submitCalls, store, navigation, phase>>
    /\ UNCHANGED <<location, feedbackVars, validationVars>>

\* click on #exit-interview-btn or #end-session-btn
handleExitInterview ==
    /\ PageAlive
    /\ interviewConfig' = withDuration(interviewConfig)
    /\ store' = saveInterviewData(transcript, withDuration(interviewConfig))
    /\ navigation' = "requested"
    /\ phase' = "Completed"
    /\ UNCHANGED <<build, sessionId, transcript, isWaitingForAI, startTime,
                   status, startCalls, submitCalls, evalCalls, console>>
    /\ UNCHANGED <<location, feedbackVars, validationVars>>

\* the browser commits the navigation to feedback.html: the document, its
\* module-level variables and its pending callbacks are gone; sessionStorage
\* stays
Unload ==
    /\ navigation = "requested"
    /\ navigation' = "committed"
    /\ interviewConfig' = NullConfig
    /\ sessionId' = NULL
    /\ transcript' = <<>>
    /\ isWaitingForAI' = FALSE
    /\ startTime' = FALSE
    /\ status' = StatusInitial
    /\ startCalls' = 0
    /\ submitCalls' = <<>>
    /\ evalCalls' = <<>>
    /\ console' = ""
    /\ phase' = "Completed"
    /\ UNCHANGED <<build, store>>
    /\ location' = "feedback.html"
    /\ UNCHANGED <<feedbackVars, validationVars>>

StartResponseStep == \E resp \in StartResponses : StartResponse(resp)

SubmitResponseStep ==
    \E i \in 1..Len(submitCalls), resp \in SubmitResponses : SubmitResponse(i, resp)

EvaluateResponseStep ==
    \E i \in 1..Len(evalCalls), ok \in BOOLEAN : EvaluateResponse(i, ok)

SendStep == \E m \in Messages : handleSendMessage(m)

Next ==
    \/ handleBeginInterview
    \/ SendStep
    \/ StartResponseStep
    \/ SubmitResponseStep
    \/ EvaluateResponseStep
    \/ handleExitInterview
    \/ Unload

Spec == Init /\ [][Next]_vars

\* every pending fetch settles: the continuation of an awaited request runs
FairSpec ==
    Spec /\ WF_vars(StartResponseStep) /\ WF_vars(SubmitResponseStep)

\* ------------------------------------------------ report page: rendering
\* dim.replace(/_/g, ' ').replace(/\b\w/g, l => l.toUpperCase())
displayName(name) ==
    CASE name = "problem_solving" -> "Problem Solving"
      [] name = "communication"   -> "Communication"
      [] OTHER                    -> name

\* `evaluation.rating || 0`
ratingOrZero(x) == IF x \in {MISSING, NullNumber, 0} THEN 0 ELSE x

\* mutant: the top label needs a score above 4.5
scoreLabelText_StrictOutstanding(score) ==
    IF score > 45 THEN "Outstanding Performance"
    ELSE IF score >= 40 THEN "Exceeds Expectations"
    ELSE IF score >= 35 THEN "Good Performance"
    ELSE IF score >= 30 THEN "Meets Expectations"
    ELSE IF score >= 25 THEN "Below Expectations"
    ELSE "Needs Improvement"

\* the label chain of updateOverallScore
scoreLabelText(score) ==
    IF score >= 45 THEN "Outstanding Performance"
    ELSE IF score >= 40 THEN "Exceeds Expectations"
    ELSE IF score >= 35 THEN "Good Performance"
    ELSE IF score >= 30 THEN "Meets Expectations"
    ELSE IF score >= 25 THEN "Below Expectations"
    ELSE "Needs Improvement"

updateOverallScore(r, score) ==
    [r EXCEPT !.scoreValue = [kind |-> "score", value |-> score],
              !.scoreLabel = scoreLabelText(score)]

\* mutant: a missing score is shown as zero
showScoreError_DefaultZero(r) ==
    [r EXCEPT !.scoreValue = [kind |-> "score", value |-> 0],
              !.scoreLabel = "Needs Improvement"]

showScoreError(r) ==
    [r EXCEPT !.scoreValue = [kind |-> "unavailable", value |-> 0],
              !.scoreLabel = "Could not calculate score"]

\* mutant: a missing summary leaves the element blank
updateExecutiveSummary_Blank(r, executiveSummary) ==
    [r EXCEPT !.summary = IF Falsy(executiveSummary)
                             THEN ""
                             ELSE executiveSummary]

updateExecutiveSummary(r, executiveSummary) ==
    [r EXCEPT !.summary = IF Falsy(executiveSummary)
                             THEN "No executive summary available."
                             ELSE executiveSummary]

\* labels and data handed to new Chart
initializeDimensionRadarChart(r, d) ==
    [r EXCEPT !.chart = [i \in 1..Len(d) |->
                            [label |-> displayName(d[i].name),
                             rating |-> ratingOrZero(d[i].rating)]]]

\* one createDimensionCard per entry, appended to the emptied grid
generateDimensionCards(r, d) ==
    [r EXCEPT !.cards = [i \in 1..Len(d) |->
                            [displayName |-> displayName(d[i].name),
                             rating |-> ratingOrZero(d[i].rating)]]]

\* mutant: the cards of critical items come first
generateActionItems_ByPriority(r, acts) ==
    LET cards == [i \in 1..Len(acts.items) |->
                     [title |-> acts.items[i].title,
                      priority |-> acts.items[i].priority]]
        IsCritical(c) == c.priority = "Critical"
    IN  [r EXCEPT !.actionItems =
            SelectSeq(cards, IsCritical)
               \o SelectSeq(cards, LAMBDA c : ~IsCritical(c))]

\* one createSmartActionItemCard per item, appended to the emptied list
generateActionItems(r, acts) ==
    [r EXCEPT !.actionItems = [i \in 1..Len(acts.items) |->
                                  [title |-> acts.items[i].title,
                                   priority |-> acts.items[i].priority]]]

\* reading .rating of a null dimension value throws a TypeError
DashboardThrows(data) ==
    /\ data.dimension_evaluations.exists
    /\ \E i \in 1..Len(data.dimension_evaluations.entries) :
          ~data.dimension_evaluations.entries[i].isObject

\* displayDashboard of feedback.js: the report elements after it returned or
\* threw
displayDashboard(r, data) ==
    LET oa   == data.overall_assessment
        dims == data.dimension_evaluations
        r1 == IF oa.exists /\ oa.overall_score \notin {MISSING, NullNumber}
                 THEN updateOverallScore(r, oa.overall_score)
                 ELSE showScoreError(r)
        r2 == updateExecutiveSummary(r1, oa.executive_summary)
        r3 == IF dims.exists /\ Len(dims.entries) > 0
                 THEN initializeDimensionRadarChart(r2, dims.entries)
                 ELSE r2
        r4 == IF dims.exists THEN generateDimensionCards(r3, dims.entries)
                             ELSE r3
    IN  IF DashboardThrows(data) THEN r2
                                 ELSE generateActionItems(r4, data.action_items)

\* the class chain of updateOverallScore of part_001 (0-100 scale)
scoreClass(score) ==
    IF score >= 90 THEN "score-excellent"
    ELSE IF score >= 75 THEN "score-good"
    ELSE IF score >= 60 THEN "score-fair"
    ELSE "score-poor"

\* displayFeedback of part_001
displayFeedback(r, data) ==
    LET score == IF data.overall_score \in {MISSING, NullNumber, 0}
                    THEN 75 ELSE data.overall_score
    IN  [r EXCEPT !.scoreValue = [kind |-> "score", value |-> score],
                  !.scoreLabel = scoreClass(score),
                  !.summary = IF Falsy(data.overall_feedback)
                                 THEN r.summary ELSE data.overall_feedback]

\* -------------------------------------------------- report page: actions
FeedbackInit ==
    /\ build \in FeedbackBuilds
    /\ store \in Stores
    /\ location = "feedback.html"
    /\ screen = "unloaded"
    /\ interviewConfig = NullConfig
    /\ interviewTranscript = <<>>
    /\ evaluationData = NoData
    /\ report = StaticReport
    /\ evaluationCalls = <<>>
    /\ console = ""
    /\ sessionId = NULL
    /\ transcript = <<>>
    /\ isWaitingForAI = FALSE
    /\ startTime = FALSE
    /\ status = StatusInitial
    /\ startCalls = 0
    /\ submitCalls = <<>>
    /\ evalCalls = <<>>
    /\ navigation = "committed"
    /\ phase = "Completed"
    /\ candidate = NullConfig
    /\ validation = NotValidated
    /\ accepted = "unchecked"

\* generateEvaluation (generateFeedback in part_001) up to `await fetch`, for
\* the transcript t and config c the page holds
generateEvaluation(t, c) ==
    IF ~c.exists
       THEN /\ screen' = "error"
            /\ console' = "Error generating evaluation: TypeError"
            /\ UNCHANGED evaluationCalls
       ELSE /\ screen' = "loading"
            /\ console' = "Generating enhanced evaluation..."
            /\ evaluationCalls' =
                  Append(evaluationCalls,
                         [role |-> c.role, seniority |-> c.seniority,
                          transcript |-> t])

\* mutant: only the config key is looked for
validatePageAccess_ConfigOnly(s) == s.hasConfig

\* both keys are present in sessionStorage
validatePageAccess(s) == s.hasTranscript /\ s.hasConfig

\* the report page's document is loaded: validatePageAccess,
\* setupEventListeners, loadInterviewData
DOMContentLoaded ==
    /\ screen = "unloaded"
    /\ IF ~validatePageAccess(store)
          THEN /\ location' = "index.html"
               /\ console' = "No interview data found, redirecting to homepage"
               /\ UNCHANGED <<interviewConfig, feedbackVars>>
          ELSE /\ location' = "feedback.html"
               /\ interviewTranscript' = store.transcript
               /\ interviewConfig' = store.config
               /\ IF build = "pages" /\ Len(store.transcript) = 0
                     THEN /\ screen' = "initial"
                          /\ console' = "No transcript data found in sessionStorage"
                          /\ UNCHANGED evaluationCalls
                     ELSE IF build = "pages"
                               /\ (~store.config.exists \/ ~store.config.role
                                      \/ ~store.config.seniority)
                             THEN /\ screen' = "initial"
                                  /\ console' =
                                       "Invalid or missing config data in sessionStorage"
                                  /\ UNCHANGED evaluationCalls
                             ELSE generateEvaluation(store.transcript, store.config)
               /\ UNCHANGED <<evaluationData, report>>
    /\ UNCHANGED <<validationVars, build, store, controllerVars>>

\* click on #retry-feedback-btn (handleRetryFeedback in part_001)
handleRetryEvaluation ==
    /\ screen # "unloaded"
    /\ Len(evaluationCalls) < MaxEvaluationCalls
    /\ generateEvaluation(interviewTranscript, interviewConfig)
    /\ UNCHANGED <<validationVars, build, store, controllerVars, interviewConfig, location,
                   interviewTranscript, evaluationData, report>>

\* displayDashboard and displayFeedback hide the loading screen and show the
\* feedback screen; they leave the error screen as it is
showFeedbackScreen(s) ==
    IF s \in {"error", "feedback+error"} THEN "feedback+error" ELSE "feedback"

\* the feedback screen is visible
FeedbackVisible(s) == s \in {"feedback", "feedback+error"}

\* mutant: a failed request is only logged, the screens stay as they are
EvaluateInterviewResponse_FailureOnlyLogged(i, ok, data) ==
    /\ screen # "unloaded"
    /\ i \in 1..Len(evaluationCalls)
    /\ evaluationCalls' = RemoveAt(evaluationCalls, i)
    /\ IF ~ok
          THEN /\ console' = "Error generating evaluation: fetch"
               /\ UNCHANGED <<screen, evaluationData, report>>
          ELSE /\ evaluationData' = data
               /\ IF build = "pages"
                     THEN /\ report' = displayDashboard(report, data)
                          /\ IF DashboardThrows(data)
                                THEN /\ screen' = "error"
                                     /\ console' =
                                          "Error generating evaluation: TypeError"
                                ELSE /\ screen' = showFeedbackScreen(screen)
                                     /\ console' =
                                          "Displaying enhanced performance feedback"
                     ELSE /\ report' = displayFeedback(report, data)
                          /\ screen' = showFeedbackScreen(screen)
                          /\ console' = "Displaying feedback"
    /\ UNCHANGED <<validationVars, build, store, controllerVars, interviewConfig, location,
                   interviewTranscript>>

\* the evaluate-interview request i resolves: the rest of generateEvaluation
EvaluateInterviewResponse(i, ok, data) ==
    /\ screen # "unloaded"
    /\ i \in 1..Len(evaluationCalls)
    /\ evaluationCalls' = RemoveAt(evaluationCalls, i)
    /\ IF ~ok
          THEN /\ screen' = "error"
               /\ console' = "Error generating evaluation: fetch"
               /\ UNCHANGED <<evaluationData, report>>
          ELSE /\ evaluationData' = data
               /\ IF build = "pages"
                     THEN /\ report' = displayDashboard(report, data)
                          /\ IF DashboardThrows(data)
                                THEN /\ screen' = "error"
                                     /\ console' =
                                          "Error generating evaluation: TypeError"
                                ELSE /\ screen' = showFeedbackScreen(screen)
                                     /\ console' =
                                          "Displaying enhanced performance feedback"
                     ELSE /\ report' = displayFeedback(report, data)
                          /\ screen' = showFeedbackScreen(screen)
                          /\ console' = "Displaying feedback"
    /\ UNCHANGED <<validationVars, build, store, controllerVars, interviewConfig, location,
                   interviewTranscript>>

\* the document is replaced: its variables and pending callbacks are gone
LeaveReportPage ==
    /\ screen' = "unloaded"
    /\ interviewConfig' = NullConfig
    /\ interviewTranscript' = <<>>
    /\ evaluationData' = NoData
    /\ report' = StaticReport
    /\ evaluationCalls' = <<>>
    /\ console' = ""

\* click on #start-new-interview-btn
handleStartNewInterview ==
    /\ screen # "unloaded"
    /\ store' = ClearedStore
    /\ location' = "onboarding.html"
    /\ LeaveReportPage
    /\ UNCHANGED <<validationVars, build, controllerVars>>

\* click on #back-to-homepage-btn or #skip-feedback-btn
handleBackToHomepage ==
    /\ screen # "unloaded"
    /\ location' = "index.html"
    /\ LeaveReportPage
    /\ UNCHANGED <<validationVars, build, store, controllerVars>>

EvaluateInterviewResponseStep ==
    \E i \in 1..Len(evaluationCalls), ok \in BOOLEAN, data \in Payloads :
        EvaluateInterviewResponse(i, ok, data)

FeedbackNext ==
    \/ DOMContentLoaded
    \/ handleRetryEvaluation
    \/ EvaluateInterviewResponseStep
    \/ handleStartNewInterview
    \/ handleBackToHomepage

FeedbackSpec == FeedbackInit /\ [][FeedbackNext]_vars

\* ------------------------------------------- configuration validators
\* Validation.validateInterviewConfig of shared/utils.js; reading config.role
\* of a null config throws a TypeError
validateInterviewConfig(config) ==
    IF ~config.exists
       THEN [ran |-> TRUE, threw |-> TRUE, isValid |-> FALSE, errors |-> <<>>]
       ELSE LET e1 == IF ~config.role THEN <<"Role is required">> ELSE <<>>
                e2 == IF ~config.seniority
                         THEN <<"Experience level is required">> ELSE <<>>
                e3 == IF config.skills = MISSING \/ config.skills = 0
                         THEN <<"At least one skill must be selected">>
                         ELSE <<>>
                e4 == IF config.skills # MISSING /\ config.skills > 1
                         THEN <<"Only one skill can be selected">> ELSE <<>>
                errors == e1 \o e2 \o e3 \o e4
            IN  [ran |-> TRUE, threw |-> FALSE, isValid |-> Len(errors) = 0,
                 errors |-> errors]

ValidationInit ==
    /\ build \in Builds
    /\ candidate \in ValidatorInputs
    /\ validation = NotValidated
    /\ accepted = "unchecked"
    /\ interviewConfig = NullConfig
    /\ sessionId = NULL
    /\ transcript = <<>>
    /\ isWaitingForAI = FALSE
    /\ startTime = FALSE
    /\ status = StatusInitial
    /\ startCalls = 0
    /\ submitCalls = <<>>
    /\ evalCalls = <<>>
    /\ store = ClearedStore
    /\ navigation = "none"
    /\ console = ""
    /\ phase = "NotStarted"
    /\ location = "onboarding.html"
    /\ screen = "unloaded"
    /\ interviewTranscript = <<>>
    /\ evaluationData = NoData
    /\ report = StaticReport
    /\ evaluationCalls = <<>>

\* the shared validator is applied to the configuration
validateInterviewConfigStep ==
    /\ ~validation.ran
    /\ validation' = validateInterviewConfig(candidate)
    /\ UNCHANGED <<build, interviewConfig, store, console, location,
                   controllerVars, feedbackVars, candidate, accepted>>

\* the interview page's validator is applied to the configuration
isValidConfigurationStep ==
    /\ accepted = "unchecked"
    /\ accepted' = IF isValidConfiguration(candidate) THEN "valid" ELSE "invalid"
    /\ UNCHANGED <<build, interviewConfig, store, console, location,
                   controllerVars, feedbackVars, candidate, validation>>

ValidationNext ==
    \/ validateInterviewConfigStep
    \/ isValidConfigurationStep

ValidationSpec == ValidationInit /\ [][ValidationNext]_vars

\* every pending evaluate-interview fetch settles
FeedbackFairSpec ==
    FeedbackSpec /\ WF_vars(EvaluateInterviewResponseStep)

\* ---------------------------------------------------------------- claims
LastEntry == transcript[Len(transcript)]

\* C1: a send-message event in a phase other than AwaitingAnswer is a no-op:
\* no submit-answer request is sent and transcript, sessionId, phase and
\* status stay as they are.
C1_SendRejectedOutsideAwaitingAnswer ==
    [][(phase # "AwaitingAnswer" /\ SendStep)
          => UNCHANGED <<transcript, sessionId, phase, status, submitCalls>>]_vars

\* C2: at most one request of the turn-taking sequence (start-interview or
\* submit-answer) is in flight in every reachable state.
C2_AtMostOneTurnRequest == TurnRequests <= 1

\* C3: only the last transcript entry may have answer = null.
C3_OnlyLastEntryUnanswered ==
    \A i \in 1..Len(transcript) :
        transcript[i].answer = NULL => i = Len(transcript)

\* C4: a start-interview or submit-answer response handled after exit, with
\* the session in Completed, changes neither the transcript, the phase, the
\* status nor the persisted snapshot.
C4_LateResponseIgnored ==
    [][(navigation # "none" /\ phase = "Completed"
           /\ (StartResponseStep \/ SubmitResponseStep))
          => UNCHANGED <<transcript, phase, status, store>>]_vars

\* C5: a stored per-answer evaluation sits on the entry whose answer it
\* evaluated, and never on an entry with answer = null.
C5_EvaluationOnEvaluatedEntry ==
    \A i \in 1..Len(transcript) :
        transcript[i].evaluation # NoEvaluation
            => /\ transcript[i].evaluation.historyLen = i - 1
               /\ transcript[i].answer # NULL

\* C6: a failing evaluate-answer call changes nothing of the turn sequence
\* (phase, status, transcript, input lock, requests in flight, store); the
\* send that issues an evaluate-answer call issues the submit-answer request
\* of that turn in the same step; and while an evaluate-answer call is
\* pending the response of a pending submit-answer request can be handled.
C6_AnnotationFailureHarmless ==
    /\ [][(\E i \in 1..Len(evalCalls) : EvaluateResponse(i, FALSE))
             => UNCHANGED <<phase, status, transcript, isWaitingForAI,
                            sessionId, startCalls, submitCalls, store>>]_vars
    /\ [][(SendStep /\ Len(evalCalls') > Len(evalCalls) /\ ~Falsy(sessionId))
             => /\ Len(submitCalls') = Len(submitCalls) + 1
                /\ submitCalls'[Len(submitCalls')].answer =
                       evalCalls'[Len(evalCalls')].answer]_vars
    /\ [](evalCalls # <<>> /\ submitCalls # <<>> /\ PageAlive
             => ENABLED SubmitResponseStep)

\* C6 witness: a turn went on to the next question although its
\* evaluate-answer call failed or never returned (no entry got an evaluation).
C6_Witness ==
    /\ build = "part_000"
    /\ console = "Individual evaluation failed"
    /\ phase = "AwaitingAnswer"
    /\ Len(transcript) = 2
    /\ transcript[1].answer # NULL
    /\ \A i \in 1..Len(transcript) : transcript[i].evaluation = NoEvaluation

\* C7: sessionId is null in NotStarted and Starting and non-null in
\* AwaitingAnswer and Submitting.
C7_SessionIdIffPastStart ==
    /\ phase \in {"NotStarted", "Starting"} => sessionId = NULL
    /\ phase \in {"AwaitingAnswer", "Submitting"} => sessionId # NULL

\* C8: a successful start-interview response without session_id leaves
\* sessionId and the transcript as they are, does not enable input and does not
\* move the phase to AwaitingAnswer.
C8_StartWithoutSessionIdFails ==
    [][\A resp \in StartResponses :
          (StartResponse(resp) /\ resp.ok /\ Falsy(resp.session_id))
             => /\ UNCHANGED <<sessionId, transcript, isWaitingForAI>>
                /\ phase' # "AwaitingAnswer"
                /\ status' # StatusReady]_vars

\* C8 witness: the response without session_id was handled on a fresh page.
C8_Witness ==
    /\ console = "Missing session_id in response"
    /\ sessionId = NULL
    /\ transcript = <<>>
    /\ phase = "Error"

\* C9: every question in the transcript is what the remote service sent
\* (opening_statement or next_question), never a text made up by the client.
C9_NoSynthesizedQuestion ==
    \A i \in 1..Len(transcript) :
        transcript[i].question \in Questions \cup {UNDEFINED}

\* C10: a submit-answer response with the completion flag ends the interview
\* (phase Completed, completion status, input locked), also when it carries a
\* next question.
C10_CompletionFlagWins ==
    [][\A i \in 1..Len(submitCalls), resp \in SubmitResponses :
          (SubmitResponse(i, resp) /\ resp.ok /\ resp.interview_completed)
             => /\ phase' = "Completed"
                /\ status' = StatusComplete
                /\ isWaitingForAI']_vars

\* C10 witness: the flag came together with a next question, which is the last
\* entry of the transcript of the completed interview.
C10_Witness ==
    /\ console = "Interview completed by AI assessment"
    /\ phase = "Completed"
    /\ status = StatusComplete
    /\ isWaitingForAI
    /\ Len(transcript) > 1
    /\ LastEntry.question \in Questions
    /\ LastEntry.answer = NULL

\* a submit-answer response was handled in this step
SubmitResolved == Len(submitCalls') < Len(submitCalls) /\ PageAlive'

\* C11: a submit-answer response without completion flag that carries a next
\* question continues the interview, whatever its other fields: the question
\* is appended and the phase is AwaitingAnswer.
C11_NextQuestionContinues ==
    [][SubmitResolved =>
         \A i \in 1..Len(submitCalls), resp \in SubmitResponses :
            (SubmitResponse(i, resp) /\ resp.ok /\ ~resp.interview_completed
                /\ ~Falsy(resp.next_question))
               => /\ transcript' = displayAIMessage(transcript, resp.next_question)
                  /\ phase' = "AwaitingAnswer"
                  /\ ~isWaitingForAI']_vars

C13_SubmitAlwaysResolves ==
    /\ [][SubmitResolved =>
            \/ phase' = "AwaitingAnswer" /\ ~isWaitingForAI'
            \/ phase' = "Completed" /\ status' = StatusComplete
            \/ phase' = "Error" /\ ~isWaitingForAI' /\ sessionId' = sessionId]_vars
    /\ (submitCalls # <<>> /\ isWaitingForAI)
          ~> (~isWaitingForAI \/ status = StatusComplete)

\* C13 witness: an accepted answer was refused by the service and the
\* controller is back with input accepted and nothing in flight.
C13_Witness ==
    /\ console = "Error submitting answer: fetch"
    /\ status = StatusSubmitErr
    /\ phase = "Error"
    /\ ~isWaitingForAI
    /\ submitCalls = <<>> /\ startCalls = 0
    /\ LastEntry.answer = "a1"

C15_ExitFromAnyPhase ==
    /\ [](PageAlive => ENABLED handleExitInterview)
    /\ [][(handleExitInterview /\ phase # "Completed" /\ interviewConfig.exists)
            => /\ UNCHANGED <<startCalls, submitCalls, evalCalls>>
               /\ phase' = "Completed"
               /\ interviewConfig'.duration # "unset"
               /\ store'.config.duration # "unset"]_vars

\* C16: with an invalid config (role, seniority or skills missing or empty) a
\* start is blocked: no start-session request is issued and the phase stays
\* NotStarted.
C16_InvalidConfigBlocksStart ==
    [][(handleBeginInterview /\ phase = "NotStarted"
            /\ ~isValidConfiguration(interviewConfig))
          => startCalls' = startCalls /\ phase' = "NotStarted"]_vars

\* C17: a start is accepted only from NotStarted: a begin in any other phase
\* sends no request, sessionId is assigned at most once, and at most one
\* opening question is appended per session.
C17_StartOnlyFromNotStarted ==
    [][/\ (handleBeginInterview /\ phase # "NotStarted")
             => startCalls' = startCalls
       /\ (sessionId # NULL /\ PageAlive') => sessionId' = sessionId
       /\ (StartResponseStep /\ PageAlive' /\ sessionId # NULL)
             => transcript' = transcript]_vars

\* C18: when the first start of a session succeeds with a session id and an
\* opening statement, the session id is stored, the phase is AwaitingAnswer
\* (input enabled, status 'Ready for your answer') and the transcript is
\* exactly one entry: the opening statement with a null answer.
C18_StartSuccessOpensSession ==
    [][(sessionId = NULL /\ transcript = <<>>) =>
         \A resp \in StartResponses :
            (StartResponse(resp) /\ resp.ok /\ ~Falsy(resp.session_id)
                /\ ~Falsy(resp.opening_statement))
               => /\ sessionId' = resp.session_id
                  /\ phase' = "AwaitingAnswer"
                  /\ ~isWaitingForAI'
                  /\ status' = StatusReady
                  /\ Len(transcript') = 1
                  /\ transcript'[1].question = resp.opening_statement
                  /\ transcript'[1].answer = NULL]_vars

\* C18 witness: the session has just been opened by the service's statement.
C18_Witness ==
    /\ console = "Displaying opening statement"
    /\ phase = "AwaitingAnswer"
    /\ status = StatusReady
    /\ ~isWaitingForAI
    /\ sessionId \in SessionIds
    /\ startCalls = 0
    /\ Len(transcript) = 1
    /\ transcript[1].question \in Questions
    /\ transcript[1].answer = NULL

\* C19: when the response to an accepted answer a continues with question q,
\* the entry that was last before the call holds the answer a, exactly one new
\* entry (q, null) is appended after it, every earlier entry is unchanged and
\* the phase is AwaitingAnswer.
C19_ContinueFrame ==
    [][SubmitResolved =>
         \A i \in 1..Len(submitCalls), resp \in SubmitResponses :
            (SubmitResponse(i, resp) /\ resp.ok
                /\ CompletionDetector(resp) = "Continue")
               => /\ Len(transcript) > 0
                  /\ LastEntry.answer = submitCalls[i].answer
                  /\ Len(transcript') = Len(transcript) + 1
                  /\ \A k \in 1..Len(transcript) : transcript'[k] = transcript[k]
                  /\ transcript'[Len(transcript')].question = resp.next_question
                  /\ transcript'[Len(transcript')].answer = NULL
                  /\ phase' = "AwaitingAnswer"]_vars

\* a start-session or submit-answer request failed in this step (transport
\* error, non-OK status, unparsable body or a body without session id)
StartFailed ==
    \E resp \in StartResponses :
        StartResponse(resp) /\ ~startOrchestratorInterview(resp)

SubmitFailed ==
    \E i \in 1..Len(submitCalls), resp \in SubmitResponses :
        SubmitResponse(i, resp) /\ ~resp.ok

\* C20: a failed start-session or submit-answer request leaves an error state
\* that keeps every transcript entry, and the failed operation can be retried
\* in the same session: after a failed submit the next answer is accepted and
\* sent with the same session id; after a failed start a new start is sent.
C20_FailureKeepsSessionRetryable ==
    /\ [][(PageAlive' /\ (StartFailed \/ SubmitFailed))
            => /\ transcript' = transcript
               /\ sessionId' = sessionId
               /\ phase' = "Error"]_vars
    /\ [][(PageAlive' /\ SubmitFailed) => ~isWaitingForAI']_vars
    /\ [](/\ PageAlive /\ phase = "Error" /\ status = StatusSubmitErr
          /\ ~isWaitingForAI /\ ~Falsy(sessionId) /\ WithinTranscriptBound
          => ENABLED (/\ handleSendMessage("a1")
                      /\ Len(submitCalls') = Len(submitCalls) + 1
                      /\ submitCalls'[Len(submitCalls')].session_id = sessionId
                      /\ sessionId' = sessionId
                      /\ Len(transcript') = Len(transcript)))
    /\ [](/\ PageAlive /\ phase = "Error" /\ status = StatusStartErr
          /\ ~StartRequestThrows(interviewConfig) /\ interviewConfig.exists
          /\ startCalls < MaxStartCalls /\ WithinTranscriptBound
          => ENABLED (handleBeginInterview /\ startCalls' = startCalls + 1))

\* C20 witness: an answer that failed is being retried in the same session:
\* the retry is in flight with the stored session id and the transcript still
\* holds the question and the answer.
C20_Witness ==
    /\ console = "Error submitting answer: fetch"
    /\ phase = "Submitting"
    /\ isWaitingForAI
    /\ Len(submitCalls) = 1
    /\ submitCalls[1].session_id = sessionId
    /\ sessionId \in SessionIds
    /\ Len(transcript) = 1
    /\ LastEntry.answer = "a1"

\* texts a user may type when sending again
ResendTexts == {"a1", "a2"}

\* C21: recording an answer only fills a pending question: in every state
\* where a send is accepted and no entry is waiting for its answer (empty
\* transcript, or last entry already answered), recording any text leaves the
\* transcript as it is, so a recorded answer is never overwritten.
C21_RecordOnlyFillsPending ==
    (PageAlive /\ ~isWaitingForAI
        /\ (transcript = <<>> \/ LastEntry.answer # NULL))
       => \A m \in ResendTexts : recordAnswer(transcript, m) = transcript

\* indexes of the entries of t that hold an answer
AnsweredEntries(t) == {k \in 1..Len(t) : t[k].answer # NULL}

\* an evaluate-interview request is sent in this step
EvaluationRequestSent == Len(evaluationCalls') > Len(evaluationCalls)

\* C22: the evaluation request is blocked before the network call when the
\* transcript has no fully answered entry (empty, or only unanswered
\* questions): feedback.js sends no evaluate-interview request for it, on
\* load or on retry.
C22_EmptyTranscriptBlocksEvaluation ==
    [][(build = "pages" /\ EvaluationRequestSent)
          => AnsweredEntries(interviewTranscript') # {}]_vars

\* C23: the evaluation request is blocked before the network call when role
\* or seniority is absent from the config: feedback.js sends no
\* evaluate-interview request for it, on load or on retry.
C23_IncompleteConfigBlocksEvaluation ==
    [][(build = "pages" /\ EvaluationRequestSent)
          => /\ interviewConfig'.exists
             /\ interviewConfig'.role
             /\ interviewConfig'.seniority]_vars

\* C24: when the transcript key or the config key is absent as the report page
\* loads, no evaluation request is sent and the user is redirected; with a
\* key absent (as after handleStartNewInterview cleared both) the page never
\* shows a screen or holds a request.
C24_MissingKeyRedirects ==
    /\ [][(DOMContentLoaded /\ (~store.hasTranscript \/ ~store.hasConfig))
            => /\ location' = "index.html"
               /\ screen' = "unloaded"
               /\ evaluationCalls' = <<>>
               /\ report' = StaticReport]_vars
    /\ []((~store.hasTranscript \/ ~store.hasConfig)
            => screen = "unloaded" /\ evaluationCalls = <<>>)
    /\ [][handleStartNewInterview => store' = ClearedStore]_vars

\* C24 witness: the page was opened with both keys cleared and redirected.
C24_Witness ==
    /\ store = ClearedStore
    /\ location = "index.html"
    /\ console = "No interview data found, redirecting to homepage"
    /\ screen = "unloaded"
    /\ evaluationCalls = <<>>

\* feedback.js rendered the body of a successful response in this step and
\* shows the dashboard; the body is evaluationData'
DashboardShown ==
    /\ build = "pages"
    /\ Len(evaluationCalls') < Len(evaluationCalls)
    /\ FeedbackVisible(screen')

\* the overall score a body carries in the enhanced shape, MISSING if none
CarriedScore(data) ==
    IF data.overall_assessment.exists
          /\ data.overall_assessment.overall_score # NullNumber
       THEN data.overall_assessment.overall_score
       ELSE MISSING

\* C25: for every payload without an overall score (absent or null) the
\* report of feedback.js shows the score-unavailable state and no number; a
\* payload whose overall score is the number 0 is shown as 0.
C25_MissingScoreIsUnavailable ==
    [][DashboardShown =>
          /\ CarriedScore(evaluationData') = MISSING
                => /\ report'.scoreValue.kind = "unavailable"
                   /\ report'.scoreLabel = "Could not calculate score"
          /\ CarriedScore(evaluationData') = 0
                => report'.scoreValue = [kind |-> "score", value |-> 0]]_vars

\* C25 witness: the dashboard is shown for a body whose overall_assessment has
\* no overall_score, with the score marked unavailable.
C25_Witness ==
    /\ build = "pages"
    /\ screen = "feedback"
    /\ evaluationData.json = "object"
    /\ evaluationData.overall_assessment.exists
    /\ evaluationData.overall_assessment.overall_score = MISSING
    /\ report.scoreValue.kind = "unavailable"

\* either copy of the report page rendered the body of a successful response
\* in this step and shows the report; the body is evaluationData'
ReportShown ==
    /\ Len(evaluationCalls') < Len(evaluationCalls)
    /\ FeedbackVisible(screen')

\* C26: both payload shapes are accepted: a flat payload (overall_score,
\* overall_feedback) and an enhanced payload (overall_assessment) each give a
\* report whose overall score and summary are the values the payload carries.
C26_BothShapesAccepted ==
    [][ReportShown =>
          LET data == evaluationData'
              oa   == data.overall_assessment
          IN  /\ (data.overall_score # MISSING /\ ~Falsy(data.overall_feedback))
                    => /\ report'.scoreValue =
                             [kind |-> "score", value |-> data.overall_score]
                       /\ report'.summary = data.overall_feedback
              /\ (CarriedScore(data) # MISSING /\ ~Falsy(oa.executive_summary))
                    => /\ report'.scoreValue =
                             [kind |-> "score", value |-> CarriedScore(data)]
                       /\ report'.summary = oa.executive_summary]_vars

\* the entries of a body's dimension map, none if the map is absent
DimensionsOf(data) ==
    IF data.dimension_evaluations.exists
       THEN data.dimension_evaluations.entries ELSE <<>>

\* C27: the dimensions of the report (cards and chart points) are exactly the
\* keys of the payload's dimension map, in its order; a rating is 0 only if
\* the payload's rating is absent or 0, else the payload's rating, and chart
\* and card agree.
C27_DimensionsAreThePayloads ==
    [][DashboardShown =>
          LET d == DimensionsOf(evaluationData')
          IN  /\ Len(report'.cards) = Len(d)
              /\ Len(report'.chart) = Len(d)
              /\ \A k \in 1..Len(d) :
                    /\ report'.cards[k].displayName = displayName(d[k].name)
                    /\ report'.chart[k].label = displayName(d[k].name)
                    /\ report'.cards[k].rating =
                          (IF d[k].rating \in {MISSING, 0} THEN 0
                                                            ELSE d[k].rating)
                    /\ report'.chart[k].rating = report'.cards[k].rating]_vars

\* C28: the label shown with a score follows the fixed thresholds (>= 4.5
\* Outstanding, [4.0,4.5) Exceeds, [3.5,4.0) Good, [3.0,3.5) Meets, [2.5,3.0)
\* Below, < 2.5 Needs Improvement): every score of the scale gets exactly one
\* label, and a higher score never gets a lower label.
C28_ScoreLabelThresholds ==
    LET band(s) == CASE s >= 45            -> 5
                     [] s >= 40 /\ s < 45  -> 4
                     [] s >= 35 /\ s < 40  -> 3
                     [] s >= 30 /\ s < 35  -> 2
                     [] s >= 25 /\ s < 30  -> 1
                     [] s < 25             -> 0
        label(b) == CASE b = 5 -> "Outstanding Performance"
                      [] b = 4 -> "Exceeds Expectations"
                      [] b = 3 -> "Good Performance"
                      [] b = 2 -> "Meets Expectations"
                      [] b = 1 -> "Below Expectations"
                      [] b = 0 -> "Needs Improvement"
        rank(l) == CHOOSE b \in 0..5 : label(b) = l
    IN  /\ (build = "pages" /\ report.scoreValue.kind = "score")
              => report.scoreLabel = label(band(report.scoreValue.value))
        /\ \A a, b \in Scores :
              /\ \E n \in 0..5 : scoreLabelText(a) = label(n)
              /\ a <= b => rank(scoreLabelText(a)) <= rank(scoreLabelText(b))

\* a score on a threshold is shown with the label of the band it opens
C28_Witness ==
    /\ build = "pages"
    /\ screen = "feedback"
    /\ report.scoreValue = [kind |-> "score", value |-> 45]
    /\ report.scoreLabel = "Outstanding Performance"

\* C29: a body without an executive summary (absent, null or empty) is shown
\* with the explicit marker, never with an empty summary; a body with one is
\* shown with that text.
C29_MissingSummaryIsMarked ==
    [][/\ build = "pages" => report'.summary # ""
       /\ DashboardShown =>
             LET e == evaluationData'.overall_assessment.executive_summary
             IN  report'.summary =
                    (IF e \in {UNDEFINED, NULL, ""}
                        THEN "No executive summary available." ELSE e)]_vars

\* a body with an empty summary is on display with the marker
C29_Witness ==
    /\ build = "pages"
    /\ screen = "feedback"
    /\ evaluationData.overall_assessment.exists
    /\ evaluationData.overall_assessment.executive_summary = ""
    /\ report.summary = "No executive summary available."

\* C30: the action-item cards are the body's action items in the order of the
\* body, one card per item: none dropped, duplicated or moved by priority.
C30_ActionItemsInInputOrder ==
    [][DashboardShown =>
          LET items == IF evaluationData'.action_items.exists
                          THEN evaluationData'.action_items.items ELSE <<>>
          IN  /\ Len(report'.actionItems) = Len(items)
              /\ \A k \in 1..Len(items) :
                    /\ report'.actionItems[k].title = items[k].title
                    /\ report'.actionItems[k].priority = items[k].priority]_vars

\* a low-priority item listed before a critical one is shown before it
C30_Witness ==
    /\ build = "pages"
    /\ screen = "feedback"
    /\ evaluationData.action_items.items =
          <<[title |-> "T1", priority |-> "Low"],
            [title |-> "T2", priority |-> "Critical"]>>
    /\ report.actionItems =
          <<[title |-> "T1", priority |-> "Low"],
            [title |-> "T2", priority |-> "Critical"]>>

\* C31: a retry replaces the report wholesale: after a body was rendered, the
\* stored body is that body and every section shows what a render of that
\* body on the freshly loaded page shows; nothing of an earlier body remains,
\* also when the new body lacks a section and when two requests overlap.
C31_RetryReplacesWholesale ==
    [][DashboardShown =>
          report' = displayDashboard(StaticReport, evaluationData')]_vars

\* the catch block of generateEvaluation ran for a rejected fetch or a non-OK
\* status
EvaluationRequestFailed ==
    /\ Len(evaluationCalls') < Len(evaluationCalls)
    /\ console' = "Error generating evaluation: fetch"

\* C32: a failed evaluation request ends in the error state (error screen
\* shown, feedback and loading screens hidden) and leaves the interview
\* controller's phase and transcript alone; in that state a retry sends the
\* request again and a skip leaves the page for the homepage.
C32_FailureEndsInErrorState ==
    [][/\ EvaluationRequestFailed =>
             /\ screen' = "error"
             /\ phase' = phase /\ transcript' = transcript
       /\ (location = "feedback.html"
              /\ console = "Error generating evaluation: fetch") =>
             /\ Len(evaluationCalls) < MaxEvaluationCalls =>
                   ENABLED (/\ handleRetryEvaluation
                            /\ screen' = "loading"
                            /\ Len(evaluationCalls') = Len(evaluationCalls) + 1)
             /\ ENABLED (handleBackToHomepage /\ location' = "index.html")]_vars

\* a request failed and the error screen is what the page shows
C32_Witness ==
    /\ location = "feedback.html"
    /\ screen = "error"
    /\ console = "Error generating evaluation: fetch"

\* response.json() delivered a body to generateEvaluation of feedback.js
EvaluationReceived ==
    /\ build = "pages"
    /\ Len(evaluationCalls') < Len(evaluationCalls)
    /\ console' # "Error generating evaluation: fetch"

\* C33: a rendering failure in one section (a dimension whose value is
\* malformed) is swallowed: a received evaluation never ends in the error
\* state, and the sections after the failing one are still rendered.
C33_RenderingFailureSwallowed ==
    [][EvaluationReceived =>
          LET acts == evaluationData'.action_items
          IN  /\ screen' # "error"
              /\ FeedbackVisible(screen')
              /\ report'.actionItems = generateActionItems(report, acts).actionItems]_vars

\* C34: while the interview page is alive the status string corresponds to
\* the phase: 'Starting interview...' only while a start is in flight, 'Ready
\* for your answer' only in AwaitingAnswer, 'AI is analyzing your response...'
\* only in Submitting, an error status in Error, the completion status in
\* Completed (also after exit).
C34_StatusFollowsPhase ==
    PageAlive =>
       /\ status = StatusStarting  => startCalls > 0
       /\ status = StatusReady     => phase = "AwaitingAnswer"
       /\ status = StatusAnalyzing => phase = "Submitting"
       /\ phase = "Error"     => status \in {StatusStartErr, StatusSubmitErr}
       /\ phase = "Completed" => status = StatusComplete

\* C35: Completed is terminal: once the session is Completed, no later step
\* of the page appends a question, records an answer, re-enables the input or
\* sends a submit-answer request.
C35_CompletedIsTerminal ==
    [][(phase = "Completed" /\ PageAlive /\ PageAlive') =>
          /\ Len(transcript') = Len(transcript)
          /\ \A k \in 1..Len(transcript) :
                transcript'[k].answer = transcript[k].answer
          /\ isWaitingForAI => isWaitingForAI'
          /\ Len(submitCalls') <= Len(submitCalls)
          /\ phase' = "Completed"]_vars

\* C36: whenever a submit-answer request is sent, sessionId is non-null, the
\* transcript is non-empty and its last entry holds the answer of the
\* request: no answer reaches the service without being recorded.
C36_SentAnswerIsRecorded ==
    [][Len(submitCalls') > Len(submitCalls) =>
          LET sent == submitCalls'[Len(submitCalls')]
          IN  /\ ~Falsy(sessionId)
              /\ sent.session_id = sessionId
              /\ Len(transcript') > 0
              /\ transcript'[Len(transcript')].answer = sent.answer]_vars

\* C37: every entry of the transcript and of the persisted snapshot has a
\* present question text; no entry with an undefined question is appended,
\* also when a completion response carries no next question.
C37_EveryEntryHasQuestion ==
    /\ \A k \in 1..Len(transcript) : transcript[k].question # UNDEFINED
    /\ \A k \in 1..Len(store.transcript) :
          store.transcript[k].question # UNDEFINED

\* C38: isWaitingForAI is true while a submit-answer request is in flight and
\* after completion, and it is false only when a question is pending and no
\* start or submit request is in flight; it is not false before a session has
\* started or while a start is in flight.
C38_WaitingFlagMatchesTurn ==
    PageAlive =>
       /\ Len(submitCalls) > 0 => isWaitingForAI
       /\ phase = "Completed" => isWaitingForAI
       /\ ~isWaitingForAI =>
             /\ TurnRequests = 0
             /\ Len(transcript) > 0
             /\ LastEntry.answer = NULL

\* the report page has loaded the stored transcript and config
ReportPageLoaded ==
    /\ location = "feedback.html"
    /\ screen \notin {"unloaded"}

\* the dashboard or the error screen is shown, or the page was left
ReportPageResolved ==
    \/ FeedbackVisible(screen)
    \/ screen = "error"
    \/ screen = "unloaded"

\* C39: once the report page has loaded the stored interview data it
\* eventually shows the dashboard or the error screen (or is left), for every
\* stored transcript and config, provided every pending response is
\* delivered.
C39_ReportPageResolves ==
    ReportPageLoaded ~> ReportPageResolved

\* C40: validateInterviewConfig is valid exactly when role and seniority are
\* present and skills has exactly one element, and isValidConfiguration
\* accepts no configuration that validateInterviewConfig rejects.
C40_ValidatorsAgree ==
    /\ (validation.ran /\ ~validation.threw) =>
          (validation.isValid <=>
              (candidate.role /\ candidate.seniority /\ candidate.skills = 1))
    /\ (validation.ran /\ accepted = "valid") => validation.isValid
====
